---------------------------- MODULE Spec2Model ----------------------------
(***************************************************************************)
(* A model of the static string helpers of class Str (src/src/Str.ts).     *)
(*                                                                         *)
(* A JavaScript string is a sequence of one-character strings.  A          *)
(* JavaScript value is a record tagged with its type, so that the          *)
(* undefined value, booleans, numbers (finite, NaN, +-Infinity) and        *)
(* strings can all be the argument or the result of a call.  A finite      *)
(* number is kept as twice its value, so that halves (1.5, -0.5) are       *)
(* representable and Math.floor / integer tests are computed.              *)
(*                                                                         *)
(* The state is the last call made on the class: the function, its         *)
(* arguments and the value it returned.                                    *)
(***************************************************************************)
EXTENDS Integers, Sequences, FiniteSets, TLC

VARIABLES fn, str, arg, pos, result

vars == <<fn, str, arg, pos, result>>

(***************************************************************************)
(* Bounds of the model.                                                    *)
(***************************************************************************)
MaxLen == 4
MaxSubLen == 2

(***************************************************************************)
(* JavaScript values.                                                      *)
(***************************************************************************)
JsUndefined ==
    [kind |-> "undefined", text |-> <<>>, bool |-> FALSE, special |-> "finite", twice |-> 0]

JsString(s) ==
    [kind |-> "string", text |-> s, bool |-> FALSE, special |-> "finite", twice |-> 0]

JsBoolean(b) ==
    [kind |-> "boolean", text |-> <<>>, bool |-> b, special |-> "finite", twice |-> 0]

\* the finite number n/2
JsHalves(n) ==
    [kind |-> "number", text |-> <<>>, bool |-> FALSE, special |-> "finite", twice |-> n]

JsNumber(n) == JsHalves(2 * n)

JsNaN ==
    [kind |-> "number", text |-> <<>>, bool |-> FALSE, special |-> "NaN", twice |-> 0]

JsInfinity ==
    [kind |-> "number", text |-> <<>>, bool |-> FALSE, special |-> "Infinity", twice |-> 0]

JsNegInfinity ==
    [kind |-> "number", text |-> <<>>, bool |-> FALSE, special |-> "-Infinity", twice |-> 0]

(***************************************************************************)
(* Characters and the built-in string methods the class relies on.         *)
(***************************************************************************)
LowerLetters ==
    <<"a", "b", "c", "d", "e", "f", "g", "h", "i", "j", "k", "l", "m",
      "n", "o", "p", "q", "r", "s", "t", "u", "v", "w", "x", "y", "z">>

UpperLetters ==
    <<"A", "B", "C", "D", "E", "F", "G", "H", "I", "J", "K", "L", "M",
      "N", "O", "P", "Q", "R", "S", "T", "U", "V", "W", "X", "Y", "Z">>

Range(f) == {f[i] : i \in DOMAIN f}

\* the regular expression class [A-Z]
UpperAZ == Range(UpperLetters)

LowerAZ == Range(LowerLetters)

\* the regular expression class \s, as far as the model's characters go
Whitespace == {" ", "\t", "\n"}

\* the characters the regular expression . does not match
LineTerminators == {"\n"}

IndexIn(f, c) == CHOOSE i \in DOMAIN f : f[i] = c

\* String.prototype.toLowerCase on one character
LowerChar(c) ==
    IF c \in UpperAZ THEN LowerLetters[IndexIn(UpperLetters, c)]
    ELSE IF c = "É" THEN "é"
    ELSE c

\* String.prototype.toUpperCase on one character
UpperChar(c) ==
    IF c \in LowerAZ THEN UpperLetters[IndexIn(LowerLetters, c)]
    ELSE IF c = "é" THEN "É"
    ELSE c

toLowerCase(s) == [i \in 1..Len(s) |-> LowerChar(s[i])]

toUpperCase(s) == [i \in 1..Len(s) |-> UpperChar(s[i])]

\* s.charAt(i), i counted from 0
charAt(s, i) == IF i >= 0 /\ i < Len(s) THEN <<s[i + 1]>> ELSE <<>>

\* s.slice(i) for 0 <= i
slice(s, i) == IF i >= Len(s) THEN <<>> ELSE SubSeq(s, i + 1, Len(s))

\* sub occurs in s at index k, counted from 0
OccursAt(s, sub, k) ==
    /\ k >= 0
    /\ k + Len(sub) <= Len(s)
    /\ \A j \in 1..Len(sub) : s[k + j] = sub[j]

Clamp(n, lo, hi) == IF n < lo THEN lo ELSE IF n > hi THEN hi ELSE n

\* s.indexOf(sub, from) for an integer from
indexOf(s, sub, from) ==
    LET start == Clamp(from, 0, Len(s))
        hits == {k \in start..Len(s) : OccursAt(s, sub, k)}
    IN IF hits = {} THEN -1 ELSE CHOOSE k \in hits : \A h \in hits : k <= h

RECURSIVE DropLeadingWhitespace(_)
\* s.replace(/^\s+/, '')
DropLeadingWhitespace(s) ==
    IF s # <<>> /\ Head(s) \in Whitespace THEN DropLeadingWhitespace(Tail(s)) ELSE s

RECURSIVE DropTrailingWhitespace(_)
\* s.replace(/\s+$/, '')
DropTrailingWhitespace(s) ==
    IF s # <<>> /\ s[Len(s)] \in Whitespace
    THEN DropTrailingWhitespace(SubSeq(s, 1, Len(s) - 1))
    ELSE s

RECURSIVE split(_, _)
\* s.split(c) for a one-character separator c: never empty, '' gives ['']
split(s, c) ==
    IF \A i \in 1..Len(s) : s[i] # c THEN <<s>>
    ELSE LET k == CHOOSE i \in 1..Len(s) : s[i] = c /\ \A j \in 1..(i - 1) : s[j] # c
         IN <<SubSeq(s, 1, k - 1)>> \o split(SubSeq(s, k + 1, Len(s)), c)

RECURSIVE join(_, _)
\* parts.join(glue)
join(parts, glue) ==
    IF parts = <<>> THEN <<>>
    ELSE IF Len(parts) = 1 THEN parts[1]
    ELSE parts[1] \o glue \o join(Tail(parts), glue)

RECURSIVE replaceAll(_, _, _)
\* s.replace(/c/g, to) and s.replaceAll(c, to) for a one-character c
replaceAll(s, c, to) ==
    IF s = <<>> THEN <<>>
    ELSE (IF Head(s) = c THEN to ELSE <<Head(s)>>) \o replaceAll(Tail(s), c, to)

(***************************************************************************)
(* Str.trim                                                                *)
(***************************************************************************)
\* trim without its second replace: trailing whitespace stays
trimLeadingOnly(s) == JsString(DropLeadingWhitespace(s))

trim(s) == JsString(DropTrailingWhitespace(DropLeadingWhitespace(s)))

(***************************************************************************)
(* Str.capitalize                                                          *)
(***************************************************************************)
capitalize(s) ==
    LET t == trim(s).text
    IN JsString(toUpperCase(charAt(t, 0)) \o toLowerCase(slice(t, 1)))

(***************************************************************************)
(* Str.camel                                                               *)
(***************************************************************************)
RECURSIVE CamelReduce(_, _, _)
\* the reduce of camel from word i on, acc being the accumulator
CamelReduce(wordList, i, acc) ==
    IF i > Len(wordList) THEN acc
    ELSE CamelReduce(wordList, i + 1,
             acc \o (IF i = 1 THEN wordList[i] ELSE capitalize(wordList[i]).text))

\* camel without the trim: a leading space makes the first word empty
camelWithoutTrim(s) == JsString(CamelReduce(split(toLowerCase(s), " "), 1, <<>>))

camel(s) == JsString(CamelReduce(split(toLowerCase(trim(s).text), " "), 1, <<>>))

(***************************************************************************)
(* Str.slugify                                                             *)
(***************************************************************************)
\* the combining diacritical marks, the class U+0300 to U+036F; the acute
\* accent U+0301 is the one the model's characters decompose to
CombiningMarks == {"U+0301"}

\* String.prototype.normalize('NFD') on one character
DecomposeChar(c) ==
    IF c = "é" THEN <<"e", "U+0301">>
    ELSE IF c = "É" THEN <<"E", "U+0301">>
    ELSE <<c>>

RECURSIVE normalizeNFD(_)
normalizeNFD(s) ==
    IF s = <<>> THEN <<>> ELSE DecomposeChar(Head(s)) \o normalizeNFD(Tail(s))

\* s.replace(/[U+0300-U+036F]/g, '')
StripCombiningMarks(s) == SelectSeq(s, LAMBDA c : c \notin CombiningMarks)

\* the default parameter sep = '-'
SlugSeparator(sep) == IF sep.kind = "undefined" THEN <<"-">> ELSE sep.text

\* the value of the expression statement that is the body of slugify
SlugifyChain(s, sep) ==
    StripCombiningMarks(
        normalizeNFD(replaceAll(toLowerCase(trim(s).text), " ", SlugSeparator(sep))))

\* the body computes SlugifyChain and has no return statement
slugify(s, sep) ==
    LET discarded == SlugifyChain(s, sep)
    IN JsUndefined

(***************************************************************************)
(* Str.endsWith and Str.startsWith                                         *)
(***************************************************************************)
\* !!v for undefined and numbers
Truthy(v) ==
    /\ v.kind = "number"
    /\ v.special # "NaN"
    /\ ~(v.special = "finite" /\ v.twice = 0)

\* the global isFinite(v) for undefined and numbers
isFinite(v) == v.kind = "number" /\ v.special = "finite"

\* Math.floor(v) !== v for a finite number v
NotAnInteger(v) == 2 * (v.twice \div 2) # v.twice

\* v > n for a finite number v and an integer n
GreaterThan(v, n) == v.twice > 2 * n

\* the position indexOf starts at: ToIntegerOrInfinity, then the clamp to 0..n
ToClampedIndex(v, n) ==
    IF v.kind # "number" \/ v.special = "NaN" THEN 0
    ELSE IF v.special = "Infinity" THEN n
    ELSE IF v.special = "-Infinity" THEN 0
    ELSE Clamp(IF v.twice >= 0 THEN v.twice \div 2 ELSE -((-v.twice) \div 2), 0, n)

\* the condition without pos > str.length
EndsWithFallsBackNoLengthTest(s, p) ==
    \/ ~Truthy(p)
    \/ ~isFinite(p)
    \/ NotAnInteger(p)

\* the condition of the if statement of endsWith
EndsWithFallsBack(s, p) ==
    \/ ~Truthy(p)
    \/ ~isFinite(p)
    \/ NotAnInteger(p)
    \/ GreaterThan(p, Len(s))

endsWith(s, substring, p) ==
    LET position == (IF EndsWithFallsBack(s, p) THEN Len(s) ELSE p.twice \div 2)
                        - Len(substring)
        index == indexOf(s, substring, position - 1)
    IN JsBoolean(index # -1 /\ index = position)

startsWith(s, sub, p) ==
    LET position == IF Truthy(p) THEN p ELSE JsNumber(0)
        index == indexOf(s, sub, ToClampedIndex(position, Len(s)))
    IN JsBoolean(position.special = "finite" /\ position.twice = 2 * index)

(***************************************************************************)
(* Str.capitalizeAll                                                       *)
(***************************************************************************)
\* capitalizeAll that drops the empty words, so that runs of spaces collapse
capitalizeAllCollapsing(s) ==
    LET stringArr == SelectSeq(split(s, " "), LAMBDA w : w # <<>>)
    IN JsString(join([i \in 1..Len(stringArr) |-> capitalize(stringArr[i]).text], <<" ">>))

capitalizeAll(s) ==
    LET stringArr == split(s, " ")
    IN JsString(join([i \in 1..Len(stringArr) |-> capitalize(stringArr[i]).text], <<" ">>))

(***************************************************************************)
(* Str.snakeToCamel and Str.snake                                          *)
(***************************************************************************)
RECURSIVE DropUnderscores(_)
DropUnderscores(s) ==
    IF s # <<>> /\ Head(s) = "_" THEN DropUnderscores(Tail(s)) ELSE s

RECURSIVE ReplaceUnderscoreRuns(_)
\* s.replace(/_+(.?)/g, (_, p1) => p1.toUpperCase())
ReplaceUnderscoreRuns(s) ==
    IF s = <<>> THEN <<>>
    ELSE IF Head(s) = "_"
    THEN LET after == DropUnderscores(s)
         IN IF after # <<>> /\ Head(after) \notin LineTerminators
            THEN <<UpperChar(Head(after))>> \o ReplaceUnderscoreRuns(Tail(after))
            ELSE ReplaceUnderscoreRuns(after)
    ELSE <<Head(s)>> \o ReplaceUnderscoreRuns(Tail(s))

\* snakeToCamel whose callback returns p1 as it is
snakeToCamelKeepsCase(s) == JsString(SelectSeq(s, LAMBDA c : c # "_"))

snakeToCamel(s) == JsString(ReplaceUnderscoreRuns(s))

\* s.replace(/(^[A-Z])/, (_, p1) => p1.toLowerCase())
LowerFirstUpper(s) ==
    IF s # <<>> /\ Head(s) \in UpperAZ THEN <<LowerChar(Head(s))>> \o Tail(s) ELSE s

RECURSIVE ReplaceEachUpper(_, _)
\* the replace with /([A-Z])/g: an underscore before every capital
ReplaceEachUpper(s, inRun) ==
    IF s = <<>> THEN <<>>
    ELSE IF Head(s) \in UpperAZ
    THEN <<"_", LowerChar(Head(s))>> \o ReplaceEachUpper(Tail(s), TRUE)
    ELSE <<Head(s)>> \o ReplaceEachUpper(Tail(s), FALSE)

RECURSIVE ReplaceUpperRuns(_, _)
\* s.replace(/([A-Z]+)/g, (_, p1) => `_${p1.toLowerCase()}`); inRun: the
\* character before s belongs to the run being replaced
ReplaceUpperRuns(s, inRun) ==
    IF s = <<>> THEN <<>>
    ELSE IF Head(s) \in UpperAZ
    THEN (IF inRun THEN <<>> ELSE <<"_">>) \o <<LowerChar(Head(s))>>
             \o ReplaceUpperRuns(Tail(s), TRUE)
    ELSE <<Head(s)>> \o ReplaceUpperRuns(Tail(s), FALSE)

snake(s) == JsString(ReplaceUpperRuns(LowerFirstUpper(s), FALSE))

(***************************************************************************)
(* Str.words and Str.title                                                 *)
(***************************************************************************)
\* words without the snake step
wordsWithoutSnake(s) == JsString(replaceAll(s, "_", <<" ">>))

words(s) == JsString(replaceAll(snake(s).text, "_", <<" ">>))

title(s) == capitalizeAll(words(s).text)

(***************************************************************************)
(* The calls.                                                              *)
(***************************************************************************)
RECURSIVE StringsUpTo(_, _)
\* the strings over alphabet of length at most n
StringsUpTo(alphabet, n) ==
    IF n = 0 THEN {<<>>}
    ELSE LET shorter == StringsUpTo(alphabet, n - 1)
         IN shorter \cup {Append(s, c) : s \in {t \in shorter : Len(t) = n - 1}, c \in alphabet}

TrimInputs == StringsUpTo({" ", "\t", "\n", "a"}, MaxLen)

WordInputs == StringsUpTo({"a", "B", " ", "\t"}, MaxLen)

SlugInputs == StringsUpTo({"a", "B", " ", "é"}, MaxLen)

SeparatorInputs == {JsUndefined, JsString(<<"-">>), JsString(<<":">>)}

IdentifierInputs == StringsUpTo({"a", "b", "A", "B", "_"}, MaxLen)

SnakeInputs == StringsUpTo({"a", "B", "_", "\n"}, MaxLen)

SearchInputs == StringsUpTo({"a", "b"}, MaxLen)

SubstringInputs == StringsUpTo({"a", "b"}, MaxSubLen)

\* undefined (the argument omitted), NaN, the infinities, and the integers
\* and halves from -2 to MaxLen + 1.5
PositionInputs ==
    {JsUndefined, JsNaN, JsInfinity, JsNegInfinity}
        \cup {JsHalves(n) : n \in (-4)..(2 * MaxLen + 3)}

Init ==
    /\ fn = "none"
    /\ str = <<>>
    /\ arg = JsUndefined
    /\ pos = JsUndefined
    /\ result = JsUndefined

\* a call of a function of one string
Call(name, s, value) ==
    /\ fn' = name
    /\ str' = s
    /\ arg' = JsUndefined
    /\ pos' = JsUndefined
    /\ result' = value

CallTrim ==
    /\ fn = "none"
    /\ \E s \in TrimInputs : Call("trim", s, trim(s))

CallCapitalize ==
    /\ fn = "none"
    /\ \E s \in WordInputs : Call("capitalize", s, capitalize(s))

CallCamel ==
    /\ fn = "none"
    /\ \E s \in WordInputs : Call("camel", s, camel(s))

CallSlugify ==
    /\ fn = "none"
    /\ \E s \in SlugInputs, sep \in SeparatorInputs :
           /\ fn' = "slugify"
           /\ str' = s
           /\ arg' = sep
           /\ pos' = JsUndefined
           /\ result' = slugify(s, sep)

CallEndsWith ==
    /\ fn = "none"
    /\ \E s \in SearchInputs, substring \in SubstringInputs, p \in PositionInputs :
           /\ fn' = "endsWith"
           /\ str' = s
           /\ arg' = JsString(substring)
           /\ pos' = p
           /\ result' = endsWith(s, substring, p)

CallStartsWith ==
    /\ fn = "none"
    /\ \E s \in SearchInputs, sub \in SubstringInputs, p \in PositionInputs :
           /\ fn' = "startsWith"
           /\ str' = s
           /\ arg' = JsString(sub)
           /\ pos' = p
           /\ result' = startsWith(s, sub, p)

CallCapitalizeAll ==
    /\ fn = "none"
    /\ \E s \in WordInputs : Call("capitalizeAll", s, capitalizeAll(s))

CallSnakeToCamel ==
    /\ fn = "none"
    /\ \E s \in SnakeInputs : Call("snakeToCamel", s, snakeToCamel(s))

CallSnake ==
    /\ fn = "none"
    /\ \E s \in IdentifierInputs : Call("snake", s, snake(s))

CallWords ==
    /\ fn = "none"
    /\ \E s \in IdentifierInputs : Call("words", s, words(s))

CallTitle ==
    /\ fn = "none"
    /\ \E s \in IdentifierInputs : Call("title", s, title(s))

\* the caller converts the snake_case text it got back to camelCase; str
\* stays the text it started from
CallSnakeToCamelOfSnake ==
    /\ fn = "snake"
    /\ fn' = "snakeToCamel(snake)"
    /\ result' = snakeToCamel(result.text)
    /\ UNCHANGED <<str, arg, pos>>

\* the caller drops the returned value and is ready for its next call
Return ==
    /\ fn # "none"
    /\ fn' = "none"
    /\ str' = <<>>
    /\ arg' = JsUndefined
    /\ pos' = JsUndefined
    /\ result' = JsUndefined

Next ==
    \/ CallTrim
    \/ CallCapitalize
    \/ CallCamel
    \/ CallSlugify
    \/ CallEndsWith
    \/ CallStartsWith
    \/ CallCapitalizeAll
    \/ CallSnakeToCamel
    \/ CallSnake
    \/ CallWords
    \/ CallTitle
    \/ CallSnakeToCamelOfSnake
    \/ Return

Spec == Init /\ [][Next]_vars

(***************************************************************************)
(* Texts of the documented examples.                                       *)
(***************************************************************************)
ThisIsATest == <<" ", "T", "h", "i", "s", " ", "i", "s", " ", "a", " ", "t", "e", "s", "T", " ">>

HelloWorldCamel == <<"h", "e", "l", "l", "o", "W", "o", "r", "l", "d">>

HelloWorldSnake == <<"h", "e", "l", "l", "o", "_", "w", "o", "r", "l", "d">>

HelloWorldWords == <<"h", "e", "l", "l", "o", " ", "w", "o", "r", "l", "d">>

HelloWorldTitle == <<"H", "e", "l", "l", "o", " ", "W", "o", "r", "l", "d">>

Letters == LowerAZ \cup UpperAZ

AllIn(s, chars) == \A i \in 1..Len(s) : s[i] \in chars

HasDoubleSpace(s) == \E i \in 1..(Len(s) - 1) : s[i] = " " /\ s[i + 1] = " "

CountSpaces(s) == Cardinality({i \in 1..Len(s) : s[i] = " "})

(***************************************************************************)
(* C1.  slugify                                                            *)
(***************************************************************************)
\* C1: slugify(str, sep) returns the text str trimmed, lowercased, with every
\* space replaced by sep (default '-') and the combining marks removed;
\* slugify(' This is a tesT ') = 'this-is-a-test' and with ':' it is
\* 'this:is:a:test'.
C1_SlugifyReturnsSlug ==
    fn = "slugify" =>
        /\ result.kind = "string"
        /\ result.text = SlugifyChain(str, arg)
        /\ slugify(ThisIsATest, JsUndefined)
               = JsString(<<"t", "h", "i", "s", "-", "i", "s", "-", "a", "-", "t", "e", "s", "t">>)
        /\ slugify(ThisIsATest, JsString(<<":">>))
               = JsString(<<"t", "h", "i", "s", ":", "i", "s", ":", "a", ":", "t", "e", "s", "t">>)

(***************************************************************************)
(* C2.  endsWith with a position inside the text                           *)
(***************************************************************************)
\* the first p characters of s end with sub
PrefixEndsWith(s, sub, p) ==
    /\ Len(sub) <= p
    /\ SubSeq(s, p - Len(sub) + 1, p) = sub

IsInteger(v) == v.kind = "number" /\ v.special = "finite" /\ v.twice % 2 = 0

IntegerOf(v) == v.twice \div 2

\* C2: for an omitted position, or an integer position p with
\* 0 <= p <= length(str), endsWith(str, substring, p) is true exactly when the
\* first p characters of str (all of str when p is omitted) end with substring.
C2_EndsWithPrefix ==
    fn = "endsWith" /\ (pos = JsUndefined \/ (IsInteger(pos) /\ IntegerOf(pos) \in 0..Len(str))) =>
        result = JsBoolean(PrefixEndsWith(str, arg.text,
                     IF pos = JsUndefined THEN Len(str) ELSE IntegerOf(pos)))

(***************************************************************************)
(* C3.  startsWith                                                         *)
(***************************************************************************)
\* C3: for an omitted position (0) or any integer position p, also a negative
\* one or one beyond the end, startsWith(str, sub, p) is true exactly when sub
\* occurs in str beginning at index p.
C3_StartsWithAtPosition ==
    fn = "startsWith" /\ (pos = JsUndefined \/ IsInteger(pos)) =>
        result = JsBoolean(OccursAt(str, arg.text,
                     IF pos = JsUndefined THEN 0 ELSE IntegerOf(pos)))

(***************************************************************************)
(* C4.  snake on a run of capitals and on two words                        *)
(***************************************************************************)
IsUpperRun(s) == s # <<>> /\ AllIn(s, UpperAZ)

\* s is a lowercase word followed by a capitalised word that starts at k + 1
IsLowerThenCapitalised(s, k) ==
    /\ k \in 1..(Len(s) - 1)
    /\ \A i \in 1..k : s[i] \in LowerAZ
    /\ s[k + 1] \in UpperAZ
    /\ \A i \in (k + 2)..Len(s) : s[i] \in LowerAZ

SnakeJoinsTwoWords ==
    \A k \in 1..Len(str) :
        IsLowerThenCapitalised(str, k) =>
            result.text = SubSeq(str, 1, k) \o <<"_">>
                              \o toLowerCase(SubSeq(str, k + 1, Len(str)))

\* C4 as stated: a run of capitals comes back lowercased with no underscore
\* (snake('ID') = 'id'), and a lowercase word followed by a capitalised word
\* comes back as the two words joined by '_' (snake('helloWorld') = 'hello_world').
C4_SnakeAsStated ==
    fn = "snake" =>
        /\ IsUpperRun(str) => result.text = toLowerCase(str)
        /\ SnakeJoinsTwoWords

\* C4 as amended: snake('helloWorld') = 'hello_world', snake('ID') = 'i_d'; a
\* run of capitals comes back lowercased with one underscore after its first
\* letter when it has two letters or more (none for a single capital), and a
\* lowercase word followed by a capitalised word comes back joined by '_'.
C4_SnakeUpperRun ==
    fn = "snake" =>
        /\ snake(HelloWorldCamel).text = HelloWorldSnake
        /\ snake(<<"I", "D">>).text = <<"i", "_", "d">>
        /\ IsUpperRun(str) =>
               result.text = <<LowerChar(str[1])>>
                                 \o (IF Len(str) > 1 THEN <<"_">> ELSE <<>>)
                                 \o toLowerCase(Tail(str))
        /\ SnakeJoinsTwoWords

C4_Witness ==
    /\ fn = "snake"
    /\ str = <<"A", "B", "B">>
    /\ result.text = <<"a", "_", "b", "b">>

(***************************************************************************)
(* C5.  capitalizeAll and runs of spaces                                   *)
(***************************************************************************)
\* two words of s are separated by a run of two or more spaces
WordsSeparatedByRun(s) ==
    \E i \in 2..(Len(s) - 2) :
        /\ s[i] = " " /\ s[i + 1] = " "
        /\ \E j \in 1..(i - 1) : s[j] \in Letters
        /\ \E j \in (i + 2)..Len(s) : s[j] \in Letters

\* C5 as stated: runs of spaces collapse, the result of capitalizeAll has no
\* two adjacent spaces where the input words were separated by a run of two
\* or more spaces, and capitalizeAll('hello  world') = 'Hello World'.
C5_CapitalizeAllCollapses ==
    fn = "capitalizeAll" /\ WordsSeparatedByRun(str) => ~HasDoubleSpace(result.text)

\* C5 as amended: capitalizeAll keeps every space: the result has as many
\* spaces as the input, adjacent spaces of the input stay adjacent in the
\* result, a text of ASCII letters and spaces keeps its spaces in place, and
\* capitalizeAll('hello  world') = 'Hello  World'.
C5_CapitalizeAllKeepsSpaces ==
    fn = "capitalizeAll" =>
        /\ CountSpaces(result.text) = CountSpaces(str)
        /\ HasDoubleSpace(str) => HasDoubleSpace(result.text)
        /\ AllIn(str, Letters \cup {" "}) =>
               /\ Len(result.text) = Len(str)
               /\ \A i \in 1..Len(str) : (result.text[i] = " ") <=> (str[i] = " ")
        /\ capitalizeAll(<<"h", "e", "l", "l", "o", " ", " ", "w", "o", "r", "l", "d">>).text
               = <<"H", "e", "l", "l", "o", " ", " ", "W", "o", "r", "l", "d">>
        /\ capitalizeAll(HelloWorldWords).text = HelloWorldTitle

C5_Witness ==
    /\ fn = "capitalizeAll"
    /\ str = <<"a", " ", " ", "B">>
    /\ result.text = <<"A", " ", " ", "B">>

(***************************************************************************)
(* C6.  endsWith with a position that is no index of the text              *)
(***************************************************************************)
IsNegativeInteger(v) == IsInteger(v) /\ IntegerOf(v) < 0

\* non-finite, non-integer, or greater than the length of s
IsUnusablePosition(v, s) ==
    /\ v.kind = "number"
    /\ \/ v.special # "finite"
       \/ v.twice % 2 # 0
       \/ v.twice > 2 * Len(s)

\* C6 as stated: with a position that is non-finite, non-integer, greater than
\* length(str) or negative, endsWith returns what it returns with the position
\* omitted.
C6_EndsWithFallbackAsStated ==
    fn = "endsWith" /\ (IsUnusablePosition(pos, str) \/ IsNegativeInteger(pos)) =>
        result = endsWith(str, arg.text, JsUndefined)

\* C6 as amended: with a position that is non-finite, non-integer or greater
\* than length(str), endsWith returns what it returns with the position
\* omitted; a negative integer position is not replaced by the length, and
\* endsWith then returns false.
C6_EndsWithFallback ==
    fn = "endsWith" =>
        /\ IsUnusablePosition(pos, str) => result = endsWith(str, arg.text, JsUndefined)
        /\ IsNegativeInteger(pos) => result = JsBoolean(FALSE)

C6_Witness ==
    /\ fn = "endsWith"
    /\ str = <<"a", "b">>
    /\ arg = JsString(<<"b">>)
    /\ pos = JsNumber(3)
    /\ result = JsBoolean(TRUE)

(***************************************************************************)
(* C7.  camel                                                              *)
(***************************************************************************)
RECURSIVE CamelWalk(_, _, _)
\* s without its spaces, a letter that comes after a space upper-cased unless
\* it is the first letter of all; started: a letter was seen, afterSpace: the
\* character before was a space
CamelWalk(s, started, afterSpace) ==
    IF s = <<>> THEN <<>>
    ELSE IF Head(s) = " " THEN CamelWalk(Tail(s), started, TRUE)
    ELSE <<IF started /\ afterSpace THEN UpperChar(Head(s)) ELSE Head(s)>>
             \o CamelWalk(Tail(s), TRUE, FALSE)

\* C7: for a text of letters and spaces camel returns the lowercased words
\* concatenated, the first word unchanged and every later word with its first
\* letter upper-cased; empty words contribute nothing, the result has no space,
\* and camel(' This is a tesT ') = 'thisIsATest'.
C7_CamelWords ==
    fn = "camel" /\ AllIn(str, Letters \cup {" "}) =>
        /\ result = JsString(CamelWalk(toLowerCase(str), FALSE, FALSE))
        /\ AllIn(result.text, Letters)
        /\ camel(ThisIsATest).text = <<"t", "h", "i", "s", "I", "s", "A", "T", "e", "s", "t">>

C7_Witness ==
    /\ fn = "camel"
    /\ str = <<"a", " ", " ", "B">>
    /\ result.text = <<"a", "B">>

(***************************************************************************)
(* C8.  snakeToCamel after snake                                           *)
(***************************************************************************)
\* ASCII letters only, the first one lowercase, no two capitals adjacent
IsSimpleCamel(s) ==
    /\ s # <<>>
    /\ AllIn(s, Letters)
    /\ s[1] \in LowerAZ
    /\ \A i \in 1..(Len(s) - 1) : ~(s[i] \in UpperAZ /\ s[i + 1] \in UpperAZ)

\* C8: snakeToCamel(snake(s)) = s for every simple camelCase identifier s.
C8_RoundTrip ==
    fn = "snakeToCamel(snake)" /\ IsSimpleCamel(str) => result = JsString(str)

C8_Witness ==
    /\ fn = "snakeToCamel(snake)"
    /\ str = <<"a", "B", "a", "B">>
    /\ result.text = str

(***************************************************************************)
(* C9.  title                                                              *)
(***************************************************************************)
\* lowercase words joined by single underscores or by camelCase boundaries
IsWordIdentifier(s) ==
    /\ s # <<>>
    /\ AllIn(s, Letters \cup {"_"})
    /\ s[1] \in LowerAZ
    /\ s[Len(s)] # "_"
    /\ \A i \in 1..(Len(s) - 1) :
           /\ s[i] = "_" => s[i + 1] \in LowerAZ
           /\ s[i + 1] \in UpperAZ => s[i] \in LowerAZ

\* the words of a word identifier, capitalized and separated by one space
TitleOfIdentifier(s) ==
    LET piece(i) ==
            IF s[i] = "_" THEN <<" ">>
            ELSE IF s[i] \in UpperAZ THEN <<" ", s[i]>>
            ELSE IF i = 1 \/ s[i - 1] = "_" THEN <<UpperChar(s[i])>>
            ELSE <<s[i]>>
    IN join([i \in 1..Len(s) |-> piece(i)], <<>>)

\* C9: title(s) is capitalizeAll of snake(s) with every underscore replaced by
\* a space; for lowercase words joined by single underscores or by camelCase
\* boundaries it is those words capitalized and separated by one space;
\* title('hello_world') = 'Hello World', words('helloWorld') = 'hello world'.
C9_TitleOfWords ==
    fn = "title" =>
        /\ result = capitalizeAll(replaceAll(snake(str).text, "_", <<" ">>))
        /\ IsWordIdentifier(str) =>
               /\ result = JsString(TitleOfIdentifier(str))
               /\ ~HasDoubleSpace(result.text)
        /\ title(HelloWorldSnake).text = HelloWorldTitle
        /\ words(HelloWorldCamel).text = HelloWorldWords

C9_Witness ==
    /\ fn = "title"
    /\ str = <<"a", "B", "_", "a">>
    /\ result.text = <<"A", " ", "B", " ", "A">>

(***************************************************************************)
(* C10.  trim                                                              *)
(***************************************************************************)
\* C10: trim(trim(s)) = trim(s), also for the empty text and for a text of
\* whitespace only, and trim(s) neither starts nor ends with whitespace.
C10_TrimIdempotent ==
    fn = "trim" =>
        /\ trim(result.text) = result
        /\ result.text # <<>> =>
               /\ result.text[1] \notin Whitespace
               /\ result.text[Len(result.text)] \notin Whitespace
        /\ AllIn(str, Whitespace) => result.text = <<>>

C10_Witness ==
    /\ fn = "trim"
    /\ str = <<" ", "\t", "a", "\n">>
    /\ result.text = <<"a">>

=============================================================================
